---- MODULE Spec2Model ----
(***************************************************************************)
(* Chunked tree traversal and node admission of ChunkedFigmaClient         *)
(* (src/src/client.ts, first class definition, lines 1-393), and the       *)
(* get_file_data handler of the server that holds one such client          *)
(* (src/src/index.ts).                                                     *)
(*                                                                         *)
(* Sizes are byte counts of the JSON text of a node.  The code divides the *)
(* byte count by 1024*1024 and compares with a budget given in MB; here    *)
(* both sides of every comparison are kept multiplied by 1048576, which is *)
(* exact (a power of two), so budgets are byte counts as well.             *)
(***************************************************************************)
EXTENDS Integers, Sequences, FiniteSets, Bags, TLC

VARIABLES document, config, nodeProcessor, pending, last, seen, chain, first,
          tool, emitted, run

vars == <<document, config, nodeProcessor, pending, last, seen, chain, first,
          tool, emitted, run>>

----------------------------------------------------------------------------
(* Bounds of the model *)

MaxNodes == 3

(* The calls a caller following the resume protocol makes before giving up *)
MaxCalls == 4

(* The calls of one client that may await their fetch at the same time *)
MaxPending == 2

(* Program constants *)

MB == 1048576

DefaultPageSize == 100

DefaultMaxMemoryMB == 512

DefaultMaxResponseSize == 50

----------------------------------------------------------------------------
(* Generic helpers *)

(* The sum of f[x] over the x of S, for positive f[x]: the cardinality of  *)
(* the bag with f[x] copies of x                                           *)
SumOver(f, S) == BagCardinality([x \in S |-> f[x]])

(* The sum of a sequence of positive numbers *)
SumSeq(s) == BagCardinality(s)

Min(a, b) == IF a < b THEN a ELSE b

----------------------------------------------------------------------------
(* The document tree.  Node ids are 1..document.n; parent 0 is the document *)
(* root.  The children of a node are its child ids in ascending order.      *)

ContainerTypes ==
  {"FRAME", "GROUP", "BOOLEAN_OPERATION", "COMPONENT", "INSTANCE", "CANVAS"}

(* The numbers of S in ascending order: the k-th has k - 1 below it *)
SortedSeq(S) ==
  [k \in 1..Cardinality(S) |-> CHOOSE x \in S : Cardinality({y \in S : y < x}) = k - 1]

ChildrenOf(doc, p) == SortedSeq({i \in 1..doc.n : doc.parent[i] = p})

(* 'children' in node: container nodes carry a children array *)
HasChildrenKey(doc, i) == doc.type[i] \in ContainerTypes

(* The keys of an input node *)
RawKeys(doc, i) ==
  {"id", "type"}
  \cup (IF HasChildrenKey(doc, i) THEN {"children"} ELSE {})
  \cup (IF doc.rich THEN {"name", "visible", "fills"} ELSE {})
  \cup (IF doc.rich /\ doc.type[i] = "TEXT" THEN {"characters", "style"} ELSE {})
  \cup (IF doc.rich /\ doc.type[i] \in {"COMPONENT", "INSTANCE"}
        THEN {"componentId"} ELSE {})

(* A node value: the id and type it was built from, and for every key     *)
(* present the kind of value it holds: "orig" (the input node's value) or  *)
(* "dflt" (the literal summarizeNode writes)                               *)
RawNode(doc, i) ==
  [id |-> i, type |-> doc.type[i], props |-> [k \in RawKeys(doc, i) |-> "orig"]]

----------------------------------------------------------------------------
(* JSON.stringify byte length *)

KeyLen(k) ==
  CASE k = "id" -> 2
    [] k = "type" -> 4
    [] k = "name" -> 4
    [] k = "visible" -> 7
    [] k = "children" -> 8
    [] k = "characters" -> 10
    [] k = "style" -> 5
    [] k = "componentId" -> 11
    [] k = "fills" -> 5
    [] k = "background" -> 10
    [] k = "booleanOperation" -> 16
    [] k = "pointCount" -> 10
    [] k = "innerRadius" -> 11
    [] k = "backgroundColor" -> 15

TypeLen(t) ==
  CASE t = "FRAME" -> 5
    [] t = "GROUP" -> 5
    [] t = "VECTOR" -> 6
    [] t = "BOOLEAN_OPERATION" -> 17
    [] t = "STAR" -> 4
    [] t = "LINE" -> 4
    [] t = "TEXT" -> 4
    [] t = "COMPONENT" -> 9
    [] t = "INSTANCE" -> 8
    [] t = "CANVAS" -> 6
    [] OTHER -> 9

(* Bytes of the value of a key other than id, type and children.           *)
(* orig: name "Node", visible false, characters "Hello", componentId "c:1", *)
(*       fills [{"type":"SOLID"}], style {"fontSize":12}                    *)
(* dflt: the literals of summarizeNode                                      *)
ValueLen(k, kind) ==
  IF kind = "orig"
  THEN CASE k = "name" -> 6
         [] k = "visible" -> 5
         [] k = "characters" -> 7
         [] k = "componentId" -> 5
         [] k = "fills" -> 18
         [] k = "style" -> 15
  ELSE CASE k = "name" -> 2
         [] k = "visible" -> 4
         [] k = "characters" -> 2
         [] k = "componentId" -> 2
         [] k = "children" -> 2
         [] k = "background" -> 2
         [] k = "booleanOperation" -> 7
         [] k = "pointCount" -> 1
         [] k = "innerRadius" -> 3
         [] k = "style" -> 126
         [] k = "backgroundColor" -> 25

(* Bytes of a JSON object, given the bytes of the value of each key:       *)
(* braces, "key":value pairs, commas between them                          *)
ObjectLen(val) ==
  CHOOSE len \in
    { 2 + SumOver([k \in DOMAIN v |-> KeyLen(k) + 3 + v[k]], DOMAIN v)
        + (IF DOMAIN v = {} THEN 0 ELSE Cardinality(DOMAIN v) - 1) : v \in {val} } : TRUE

RECURSIVE RawBytes(_, _)
(* Bytes of JSON.stringify of the input node i, its subtree included *)
RawBytes(doc, i) ==
  LET kids == ChildrenOf(doc, i)
      arr == 2 + SumSeq([j \in 1..Len(kids) |-> RawBytes(doc, kids[j])])
               + (IF Len(kids) > 0 THEN Len(kids) - 1 ELSE 0)
  IN ObjectLen([k \in RawKeys(doc, i) |->
                  CASE k = "id" -> 3
                    [] k = "type" -> TypeLen(doc.type[i]) + 2
                    [] k = "children" -> arr
                    [] OTHER -> ValueLen(k, "orig")])

(* Bytes of the children array of input node i *)
ChildrenBytes(doc, i) ==
  LET kids == ChildrenOf(doc, i)
  IN 2 + SumSeq([j \in 1..Len(kids) |-> RawBytes(doc, kids[j])])
       + (IF Len(kids) > 0 THEN Len(kids) - 1 ELSE 0)

(* estimateNodeSize: bytes of JSON.stringify of a node value *)
estimateNodeSize(doc, node) ==
  ObjectLen([k \in DOMAIN node.props |->
               CASE k = "id" -> 3
                 [] k = "type" -> TypeLen(node.type) + 2
                 [] k = "children" /\ node.props[k] = "orig" -> ChildrenBytes(doc, node.id)
                 [] OTHER -> ValueLen(k, node.props[k])])

----------------------------------------------------------------------------
(* ChunkConfig.  Optional fields are records [some, val].  maxResponseSize  *)
(* is a number, 0 standing for the falsy values (undefined, 0).             *)

None == [some |-> FALSE, val |-> {}]

NoDepth == [some |-> FALSE, val |-> 0]

Some(v) == [some |-> TRUE, val |-> v]

(* this.config.maxResponseSize || this.config.maxMemoryMB *)
EffectiveBudget(cfg) ==
  IF cfg.maxResponseSize # 0 THEN cfg.maxResponseSize ELSE cfg.maxMemoryMB

(* new StreamingNodeProcessor(config) *)
NewProcessor(cfg) ==
  [processedNodes |-> {}, config |-> cfg, currentSize |-> 0]

(* Mutant of filterNodeProperties: id and type are deleted like any other  *)
(* excluded property                                                       *)
filterNodePropertiesAll(cfg, node) ==
  IF ~cfg.excludeProps.some \/ cfg.excludeProps.val = {} THEN node
  ELSE [node EXCEPT !.props = [k \in (DOMAIN node.props) \ cfg.excludeProps.val |->
                                 node.props[k]]]

(* filterNodeProperties *)
filterNodeProperties(cfg, node) ==
  IF ~cfg.excludeProps.some \/ cfg.excludeProps.val = {} THEN node
  ELSE LET drop == {p \in cfg.excludeProps.val : p # "id" /\ p # "type"}
       IN [node EXCEPT !.props = [k \in (DOMAIN node.props) \ drop |-> node.props[k]]]

(* summarizeNode *)
summarizeNode(node) ==
  LET has(k) == k \in DOMAIN node.props
      keep(k) == IF has(k) THEN node.props[k] ELSE "dflt"
      base == [k \in {"id", "name", "visible", "type"} |->
                 CASE k = "id" -> "orig"
                   [] k = "type" -> "orig"
                   [] OTHER -> keep(k)]
      with(extra) == [k \in (DOMAIN base) \cup (DOMAIN extra) |->
                        IF k \in DOMAIN extra THEN extra[k] ELSE base[k]]
      children == [k \in {"children"} |-> keep(k)]
      t == node.type
      props ==
        CASE t = "FRAME" -> with([k \in {"children", "background"} |->
                                   IF k = "children" THEN keep(k) ELSE "dflt"])
          [] t = "GROUP" -> with(children)
          [] t = "VECTOR" -> base
          [] t = "BOOLEAN_OPERATION" ->
               with([k \in {"children", "booleanOperation"} |->
                      IF k = "children" THEN keep(k) ELSE "dflt"])
          [] t = "STAR" -> with([k \in {"pointCount", "innerRadius"} |-> "dflt"])
          [] t = "LINE" -> base
          [] t = "TEXT" -> with([k \in {"characters", "style"} |->
                                  IF k = "characters" THEN keep(k) ELSE "dflt"])
          [] t = "COMPONENT" -> with([k \in {"children", "componentId"} |-> keep(k)])
          [] t = "INSTANCE" -> with([k \in {"children", "componentId"} |-> keep(k)])
          [] t = "CANVAS" -> with([k \in {"children", "backgroundColor"} |->
                                    IF k = "children" THEN keep(k) ELSE "dflt"])
          [] OTHER -> with(children)
  IN [node EXCEPT !.props = props]

(* Mutant of shouldProcessNode: the nodeTypes test is missing *)
shouldProcessNodeAnyType(proc, doc, node, depth) ==
  IF node.id \in proc.processedNodes THEN FALSE
  ELSE IF proc.config.maxDepth.some /\ depth > proc.config.maxDepth.val THEN FALSE
  ELSE IF proc.currentSize + estimateNodeSize(doc, node) > EffectiveBudget(proc.config)
  THEN FALSE
  ELSE TRUE

(* Mutant of shouldProcessNode: the size test is missing *)
shouldProcessNodeAnySize(proc, doc, node, depth) ==
  IF node.id \in proc.processedNodes THEN FALSE
  ELSE IF proc.config.nodeTypes.some /\ node.type \notin proc.config.nodeTypes.val
  THEN FALSE
  ELSE IF proc.config.maxDepth.some /\ depth > proc.config.maxDepth.val THEN FALSE
  ELSE TRUE

(* shouldProcessNode *)
shouldProcessNode(proc, doc, node, depth) ==
  IF node.id \in proc.processedNodes THEN FALSE
  ELSE IF proc.config.nodeTypes.some /\ node.type \notin proc.config.nodeTypes.val
  THEN FALSE
  ELSE IF proc.config.maxDepth.some /\ depth > proc.config.maxDepth.val THEN FALSE
  ELSE IF proc.currentSize + estimateNodeSize(doc, node) > EffectiveBudget(proc.config)
  THEN FALSE
  ELSE TRUE

(* The size processNode adds to currentSize on acceptance *)
AcceptedSize(doc, processedNode) == estimateNodeSize(doc, processedNode)

(* Mutant of Transform: the summary is never applied *)
TransformNoSummary(cfg, node) == filterNodeProperties(cfg, node)

(* processNode, lines 150-154: property exclusion, then the summary if     *)
(* summarizeNodes is set                                                   *)
Transform(cfg, node) ==
  IF cfg.summarizeNodes
  THEN summarizeNode(filterNodeProperties(cfg, node))
  ELSE filterNodeProperties(cfg, node)

(* Mutant of Accept: the id is not added to processedNodes *)
AcceptForgetsId(proc, doc, id, processedNode) ==
  [admitted |-> TRUE, node |-> processedNode,
   proc |-> [proc EXCEPT !.currentSize = @ + AcceptedSize(doc, processedNode)]]

(* processNode, lines 149-157, for a node that passed shouldProcessNode    *)
Accept(proc, doc, id, processedNode) ==
  [admitted |-> TRUE, node |-> processedNode,
   proc |-> [proc EXCEPT
               !.processedNodes = @ \cup {id},
               !.currentSize = @ + AcceptedSize(doc, processedNode)]]

(* Mutant of processNode: a skipped node is marked as processed            *)
processNodeMarksSkipped(proc, doc, node, depth) ==
  IF ~shouldProcessNode(proc, doc, node, depth)
  THEN [admitted |-> FALSE, node |-> node,
        proc |-> [proc EXCEPT !.processedNodes = @ \cup {node.id}]]
  ELSE Accept(proc, doc, node.id, Transform(proc.config, node))

(* processNode: null (admitted = FALSE) or the processed node, and the      *)
(* processor after the call                                                 *)
processNode(proc, doc, node, depth) ==
  IF ~shouldProcessNode(proc, doc, node, depth)
  THEN [admitted |-> FALSE, node |-> node, proc |-> proc]
  ELSE Accept(proc, doc, node.id, Transform(proc.config, node))

(* Mutant of hasReachedLimit: the limit counts as reached only when the    *)
(* accumulator exceeds the budget                                          *)
hasReachedLimitStrict(proc) == proc.currentSize > EffectiveBudget(proc.config)

(* hasReachedLimit *)
hasReachedLimit(proc) == proc.currentSize >= EffectiveBudget(proc.config)

(* getProcessedCount *)
getProcessedCount(proc) == Cardinality(proc.processedNodes)

----------------------------------------------------------------------------
(* Cursors.  A cursor argument is absent (undefined) or a string, kept as   *)
(* the sequence of its characters.                                          *)

NoCursor == [present |-> FALSE, str |-> <<>>]

Cursor(str) == [present |-> TRUE, str |-> str]

DigitChars == <<"0", "1", "2", "3", "4", "5", "6", "7", "8", "9">>

IsDigit(c) == \E d \in 1..10 : DigitChars[d] = c

DigitVal(c) == (CHOOSE d \in 1..10 : DigitChars[d] = c) - 1

RECURSIVE DigitsValue(_, _)
(* Value of the longest prefix of digits of s, continuing from acc *)
DigitsValue(s, acc) ==
  IF s # <<>> /\ IsDigit(Head(s))
  THEN DigitsValue(Tail(s), 10 * acc + DigitVal(Head(s)))
  ELSE acc

RECURSIVE StripSpace(_)
StripSpace(s) == IF s # <<>> /\ Head(s) = " " THEN StripSpace(Tail(s)) ELSE s

(* parseInt(str, 10): leading white space, an optional sign, then the       *)
(* longest prefix of digits; NaN when there is no digit                     *)
parseInt(str) ==
  LET s == StripSpace(str)
      neg == s # <<>> /\ Head(s) = "-"
      body == IF s # <<>> /\ Head(s) \in {"-", "+"} THEN Tail(s) ELSE s
  IN IF body = <<>> \/ ~IsDigit(Head(body))
     THEN [nan |-> TRUE, val |-> 0]
     ELSE [nan |-> FALSE,
           val |-> IF neg THEN 0 - DigitsValue(body, 0) ELSE DigitsValue(body, 0)]

RECURSIVE toString(_)
(* Number.prototype.toString of a non-negative integer *)
toString(n) ==
  IF n < 10 THEN <<DigitChars[n + 1]>>
  ELSE toString(n \div 10) \o <<DigitChars[(n % 10) + 1]>>

(* let currentIndex = cursor ? parseInt(cursor, 10) : 0 *)
StartIndex(cursor) ==
  IF cursor.present /\ cursor.str # <<>> THEN parseInt(cursor.str)
  ELSE [nan |-> FALSE, val |-> 0]

(* Mutant of SkipToCursor: the skip loop runs while currentIndex >= 0 *)
SkipToCursorOneFar(queue, currentIndex) ==
  IF currentIndex.nan \/ currentIndex.val < 0 THEN queue
  ELSE SubSeq(queue, Min(currentIndex.val + 1, Len(queue)) + 1, Len(queue))

(* Mutant of SkipToCursor: the skip loop runs while currentIndex > 1 *)
SkipToCursorOneShort(queue, currentIndex) ==
  IF currentIndex.nan \/ currentIndex.val <= 1 THEN queue
  ELSE SubSeq(queue, Min(currentIndex.val - 1, Len(queue)) + 1, Len(queue))

(* while (currentIndex > 0 && queue.length > 0) { queue.shift(); currentIndex-- } *)
SkipToCursor(queue, currentIndex) ==
  IF currentIndex.nan \/ currentIndex.val <= 0 THEN queue
  ELSE SubSeq(queue, Min(currentIndex.val, Len(queue)) + 1, Len(queue))

----------------------------------------------------------------------------
(* streamNodes *)

(* document.children.map(node => ({ node, depth: 0 })) and                  *)
(* node.children.map(child => ({ node: child, depth: depth + 1 }))          *)
Entries(doc, p, depth) ==
  LET kids == ChildrenOf(doc, p)
  IN [j \in 1..Len(kids) |-> [node |-> kids[j], depth |-> depth]]

(* Mutant of LoopGuard: result.length <= pageSize *)
LoopGuardOffByOne(queue, result, pageSize) ==
  Len(queue) > 0 /\ Len(result) <= pageSize

(* The loop condition: queue.length > 0 && result.length < this.config.pageSize *)
LoopGuard(queue, result, pageSize) == Len(queue) > 0 /\ Len(result) < pageSize

(* Mutant of PushChildren: the entry is read at the front of the queue     *)
(* and not removed                                                         *)
PushChildrenNoShift(doc, rest, entry) ==
  IF HasChildrenKey(doc, entry.node)
  THEN Entries(doc, entry.node, entry.depth + 1) \o <<entry>> \o rest
  ELSE <<entry>> \o rest

(* Mutant of PushChildren: the children get the depth of their parent *)
PushChildrenSameDepth(doc, rest, entry) ==
  IF HasChildrenKey(doc, entry.node)
  THEN Entries(doc, entry.node, entry.depth) \o rest
  ELSE rest

(* Mutant of PushChildren: the children go to the back of the queue *)
PushChildrenAtBack(doc, rest, entry) ==
  IF HasChildrenKey(doc, entry.node)
  THEN rest \o Entries(doc, entry.node, entry.depth + 1)
  ELSE rest

(* The queue after one entry was shifted and examined *)
PushChildren(doc, rest, entry) ==
  IF HasChildrenKey(doc, entry.node)
  THEN Entries(doc, entry.node, entry.depth + 1) \o rest
  ELSE rest

(* result.push(processedNode) when processNode returned a node *)
Pushed(result, r) == IF r.admitted THEN Append(result, r.node) ELSE result

RECURSIVE Loop(_, _, _, _, _)
RECURSIVE Step(_, _, _, _, _)

(* Mutant of Step: the children of a node that was not admitted are        *)
(* taken off the queue again                                               *)
StepSkipsSubtree(doc, pageSize, queue1, result1, r) ==
  IF hasReachedLimit(r.proc)
  THEN [queue |-> queue1, result |-> result1, proc |-> r.proc]
  ELSE Loop(doc, pageSize,
            IF r.admitted THEN queue1
            ELSE SubSeq(queue1, Len(ChildrenOf(doc, r.node.id)) + 1, Len(queue1)),
            result1, r.proc)

(* One iteration of the main loop after processNode returned r for the     *)
(* shifted entry: push the result and the children, test the limit         *)
Step(doc, pageSize, queue1, result1, r) ==
  IF hasReachedLimit(r.proc)
  THEN [queue |-> queue1, result |-> result1, proc |-> r.proc]
  ELSE Loop(doc, pageSize, queue1, result1, r.proc)

(* The main loop of streamNodes *)
Loop(doc, pageSize, queue, result, proc) ==
  IF ~LoopGuard(queue, result, pageSize)
  THEN [queue |-> queue, result |-> result, proc |-> proc]
  ELSE Step(doc, pageSize,
            PushChildren(doc, Tail(queue), Head(queue)),
            Pushed(result,
                   processNode(proc, doc, RawNode(doc, Head(queue).node),
                               Head(queue).depth)),
            processNode(proc, doc, RawNode(doc, Head(queue).node), Head(queue).depth))

(* Mutant of NextCursorOf: the cursor is the 1-based position after the    *)
(* admitted nodes                                                          *)
NextCursorOnePast(queue, proc) ==
  IF Len(queue) > 0 THEN Cursor(toString(getProcessedCount(proc) + 1)) ELSE NoCursor

(* Mutant of NextCursorOf: a cursor whenever the processor holds a node *)
NextCursorWhenProcessed(queue, proc) ==
  IF getProcessedCount(proc) > 0
  THEN Cursor(toString(getProcessedCount(proc))) ELSE NoCursor

(* nextCursor of the returned ChunkResult *)
NextCursorOf(queue, proc) ==
  IF Len(queue) > 0 THEN Cursor(toString(getProcessedCount(proc))) ELSE NoCursor

(* hasMore of the returned ChunkResult *)
HasMoreOf(queue) == Len(queue) > 0

(* The queue streamNodes starts its main loop with *)
StartQueue(doc, cursor) == SkipToCursor(Entries(doc, 0, 0), StartIndex(cursor))

(* The ChunkResult streamNodes returns from the final queue, result and    *)
(* processor, together with that processor                                 *)
ChunkResult(fin) ==
  [nodes |-> fin.result,
   memoryUsage |-> fin.proc.currentSize,
   nextCursor |-> NextCursorOf(fin.queue, fin.proc),
   hasMore |-> HasMoreOf(fin.queue),
   proc |-> fin.proc]

(* streamNodes(document, cursor) under the client's config and processor   *)
streamNodes(doc, cursor, cfg, proc) ==
  ChunkResult(Loop(doc, cfg.pageSize, StartQueue(doc, cursor), <<>>, proc))

----------------------------------------------------------------------------
(* The client *)

Has(partial, k) == k \in DOMAIN partial

(* The constructor's config: defaults by || for the three numbers *)
ConstructorConfig(partial) ==
  [pageSize |-> IF Has(partial, "pageSize") /\ partial.pageSize # 0
                THEN partial.pageSize ELSE DefaultPageSize,
   maxMemoryMB |-> IF Has(partial, "maxMemoryMB") /\ partial.maxMemoryMB # 0
                   THEN partial.maxMemoryMB ELSE DefaultMaxMemoryMB * MB,
   nodeTypes |-> IF Has(partial, "nodeTypes") THEN partial.nodeTypes ELSE None,
   maxDepth |-> IF Has(partial, "maxDepth") THEN partial.maxDepth ELSE NoDepth,
   excludeProps |-> IF Has(partial, "excludeProps") THEN partial.excludeProps ELSE None,
   maxResponseSize |-> IF Has(partial, "maxResponseSize") /\ partial.maxResponseSize # 0
                       THEN partial.maxResponseSize ELSE DefaultMaxResponseSize * MB,
   summarizeNodes |-> IF Has(partial, "summarizeNodes")
                      THEN partial.summarizeNodes ELSE FALSE]

(* { ...this.config, ...config } *)
MergeConfig(cfg, partial) ==
  [k \in DOMAIN cfg |-> IF Has(partial, k) THEN partial[k] ELSE cfg[k]]

(* The processor getFileInfoChunked leaves in place for a call that passes *)
(* a config: a new one                                                     *)
RecreateProcessor(proc, cfg) == NewProcessor(cfg)

NoConfig == [given |-> FALSE, partial |-> <<>>]

Given(partial) == [given |-> TRUE, partial |-> partial]

NoResult ==
  [op |-> "getFileInfoChunked", ids |-> 0,
   status |-> "none", cursor |-> NoCursor, nodes |-> <<>>, memoryUsage |-> 0,
   nextCursor |-> NoCursor, hasMore |-> FALSE,
   before |-> NewProcessor(ConstructorConfig(<<>>)),
   cfg |-> ConstructorConfig(<<>>),
   own |-> ConstructorConfig(<<>>), kept |-> TRUE]

Ids(nodes) == {nodes[j].id : j \in 1..Len(nodes)}

----------------------------------------------------------------------------
(* Inputs *)

RECURSIVE PathToRoot(_, _)
(* i and its ancestors *)
PathToRoot(parent, i) == IF i = 0 THEN {0} ELSE {i} \cup PathToRoot(parent, parent[i])

(* Parent maps of 1..n nodes with ids in document (pre-order) order *)
Shapes(n) ==
  {q \in [1..n -> 0..(n - 1)] :
     /\ q[1] = 0
     /\ \A i \in 2..n : q[i] \in PathToRoot(q, i - 1)}

(* Trees of 1..MaxNodes nodes: a node with children is a FRAME, the        *)
(* childless nodes of a tree all have the tree's leaf type                 *)
Trees(leafTypes, richness) ==
  UNION {
    { [n |-> n, parent |-> p, rich |-> r,
       type |-> [i \in 1..n |-> IF \E j \in 1..n : p[j] = i THEN "FRAME" ELSE leaf]] :
        p \in Shapes(n), leaf \in leafTypes, r \in richness }
    : n \in 1..MaxNodes }

(* Trees of 1..MaxNodes nodes whose nodes with children all have one type  *)
(* of innerTypes and whose childless nodes all have one type of leafTypes  *)
TypedTrees(innerTypes, leafTypes, richness) ==
  UNION {
    { [n |-> n, parent |-> p, rich |-> r,
       type |-> [i \in 1..n |-> IF \E j \in 1..n : p[j] = i THEN inner ELSE leaf]] :
        p \in Shapes(n), inner \in innerTypes, leaf \in leafTypes, r \in richness }
    : n \in 1..MaxNodes }

WellFormed(doc) ==
  \A i \in 1..doc.n : doc.parent[i] # 0 => doc.type[doc.parent[i]] \in ContainerTypes

(* The cursor arguments a caller passes: none, the empty string, decimal   *)
(* counts, and strings that are not numbers                                *)
CursorInputs ==
  {NoCursor, Cursor(<<>>), Cursor(<<"a">>), Cursor(<<"1", "x">>)}
  \cup {Cursor(toString(c)) : c \in 1..MaxNodes}

(* The options a caller passes to getFileInfoChunked: none, a page size *)
PagingOptions == {<<>>} \cup {[pageSize |-> p] : p \in 1..2}

(* The options the client is constructed with: the same, or a response     *)
(* budget of 48 bytes, which two childless TEXT nodes fill exactly         *)
ConstructorOptions == PagingOptions \cup {[maxResponseSize |-> 48]}

----------------------------------------------------------------------------
(* State *)

(* document      the tree the upstream fetch returns for the file           *)
(* config        this.config                                                *)
(* nodeProcessor this.nodeProcessor                                         *)
(* pending       the getFileInfoChunked calls awaiting their fetch, each    *)
(*               with its cursor, the config it left in place when it      *)
(*               started, and whether its start left the config and the    *)
(*               processor as it found them                                *)
(* last          the outcome of the call that completed last, with the      *)
(*               processor and config its traversal started from; it is     *)
(*               dropped when the next call starts                          *)
(* seen          the ids admitted by the calls that completed before it     *)
(* chain         progress of a caller that follows the resume protocol:     *)
(*               a first call without cursor, then calls with the cursor    *)
(*               returned last, none passing a config                       *)
(* first         the result and config of the first call of the instance    *)
(*               that asked for the whole tree in one pass                  *)
(* tool          the arguments of the get_file_data request the call in     *)
(*               flight or completed last serves, if it serves one          *)
(* emitted       the number of nodes in the pages returned since the        *)
(*               current processor was created                              *)
(* run           the streamNodes invocation in progress, when the loop is   *)
(*               followed one iteration at a time                           *)

NoRequest == [some |-> FALSE, cursor |-> NoCursor, args |-> <<>>]

Idle == [phase |-> "idle", cursor |-> NoCursor, queue |-> <<>>, result |-> <<>>,
         before |-> NewProcessor(ConstructorConfig(<<>>)),
         own |-> ConstructorConfig(<<>>)]

FreshChain == [state |-> "fresh", pages |-> <<>>, next |-> NoCursor, calls |-> 0]

BrokenChain == [state |-> "broken", pages |-> <<>>, next |-> NoCursor, calls |-> 0]

NoFirst == [some |-> FALSE, nodes |-> <<>>, cfg |-> ConstructorConfig(<<>>)]

(* Bytes of all the nodes of the tree, each estimated on its own *)
TotalBytes(doc) == SumSeq([i \in 1..doc.n |-> RawBytes(doc, i)])

(* A call without cursor whose page size and budget allow the whole tree   *)
(* in one pass                                                             *)
AsksWholeTree(doc, cursor, cfg) ==
  /\ ~cursor.present
  /\ cfg.pageSize >= doc.n
  /\ EffectiveBudget(cfg) > TotalBytes(doc)

InitWith(docs, options) ==
  /\ document \in {d \in docs : WellFormed(d)}
  /\ \E partial \in options :
       /\ config = ConstructorConfig(partial)
       /\ nodeProcessor = NewProcessor(ConstructorConfig(partial))
  /\ pending = <<>>
  /\ last = NoResult
  /\ seen = {}
  /\ chain = FreshChain
  /\ first = NoFirst
  /\ tool = NoRequest
  /\ emitted = 0
  /\ run = Idle

(* getFileInfoChunked up to its await: the config update, then the fetch   *)
(* is in flight                                                            *)
CallStart(cursor, passed, limit) ==
  /\ Len(pending) < limit
  /\ IF passed.given
     THEN /\ config' = MergeConfig(config, passed.partial)
          /\ nodeProcessor' = RecreateProcessor(nodeProcessor,
                                                MergeConfig(config, passed.partial))
     ELSE UNCHANGED <<config, nodeProcessor>>
  /\ pending' = Append(pending,
                        [cursor |-> cursor,
                         own |-> IF passed.given
                                 THEN MergeConfig(config, passed.partial)
                                 ELSE config,
                         kept |-> config' = config /\ nodeProcessor' = nodeProcessor])
  /\ chain' = IF /\ chain.state \in {"fresh", "running"}
                 /\ chain.calls < MaxCalls
                 /\ ~passed.given
                 /\ pending = <<>>
                 /\ cursor = chain.next
              THEN chain
              ELSE BrokenChain
  /\ last' = NoResult
  /\ seen' = seen \cup Ids(last.nodes)
  /\ emitted' = IF passed.given THEN 0 ELSE emitted
  /\ UNCHANGED <<document, first, run>>

Remove(s, i) == SubSeq(s, 1, i - 1) \o SubSeq(s, i + 1, Len(s))

(* The fetch of pending call i returns the document: streamNodes runs      *)
FetchReturn(i) ==
  /\ i \in 1..Len(pending)
  /\ \E r \in {streamNodes(document, pending[i].cursor, config, nodeProcessor)} :
        /\ nodeProcessor' = r.proc
        /\ last' = [NoResult EXCEPT
                      !.status = "ok", !.cursor = pending[i].cursor,
                      !.nodes = r.nodes, !.memoryUsage = r.memoryUsage,
                      !.nextCursor = r.nextCursor, !.hasMore = r.hasMore,
                      !.before = nodeProcessor, !.cfg = config,
                      !.own = pending[i].own]
        /\ chain' = IF chain.state \in {"fresh", "running"}
                    THEN [state |-> IF r.hasMore THEN "running" ELSE "done",
                          pages |-> chain.pages \o r.nodes,
                          next |-> r.nextCursor,
                          calls |-> chain.calls + 1]
                    ELSE BrokenChain
        /\ first' = IF ~first.some /\ AsksWholeTree(document, pending[i].cursor, config)
                    THEN [some |-> TRUE, nodes |-> r.nodes, cfg |-> config]
                    ELSE first
        /\ emitted' = emitted + Len(r.nodes)
  /\ pending' = Remove(pending, i)
  /\ seen' = seen \cup Ids(last.nodes)
  /\ UNCHANGED <<document, config, tool, run>>

(* The fetch of pending call i fails: getFileInfoChunked throws            *)
FetchFail(i) ==
  /\ i \in 1..Len(pending)
  /\ last' = [NoResult EXCEPT !.status = "error", !.cursor = pending[i].cursor,
                              !.before = nodeProcessor, !.cfg = config,
                              !.own = pending[i].own,
                              !.kept = pending[i].kept]
  /\ chain' = BrokenChain
  /\ pending' = Remove(pending, i)
  /\ seen' = seen \cup Ids(last.nodes)
  /\ UNCHANGED <<document, config, nodeProcessor, first, tool, emitted, run>>

(* Mutant of InvalidResponse: the response is validated after the tree at  *)
(* hand was traversed                                                      *)
InvalidResponseAfterTraversal(proc, doc, cursor, cfg) ==
  streamNodes(doc, cursor, cfg, proc).proc

(* Lines 268-270: the processor a response without document leaves         *)
(* behind; the throw comes before streamNodes is called                    *)
InvalidResponse(proc, doc, cursor, cfg) == proc

(* The fetch of pending call i returns a response without document:        *)
(* getFileInfoChunked throws 'Invalid response from Figma API'             *)
FetchInvalid(i) ==
  /\ i \in 1..Len(pending)
  /\ nodeProcessor' = InvalidResponse(nodeProcessor, document, pending[i].cursor, config)
  /\ last' = [NoResult EXCEPT !.status = "invalid", !.cursor = pending[i].cursor,
                              !.before = nodeProcessor, !.cfg = config,
                              !.own = pending[i].own,
                              !.kept = pending[i].kept]
  /\ chain' = BrokenChain
  /\ pending' = Remove(pending, i)
  /\ seen' = seen \cup Ids(last.nodes)
  /\ UNCHANGED <<document, config, first, tool, emitted, run>>

(* The endpoints that pass the fetched data through.  getComponents,       *)
(* getStyles, getFileVersions and getFileComments await their fetch and    *)
(* then test the limit of the traversal processor; a fetch that rejects    *)
(* is rethrown before the test.                                            *)

(* Mutant of getComponents: the limit is not tested *)
getComponentsUnchecked(proc, fetched) ==
  IF ~fetched THEN "fetch error" ELSE "data"

(* getComponents *)
getComponents(proc, fetched) ==
  IF ~fetched THEN "fetch error"
  ELSE IF hasReachedLimit(proc) THEN "Memory limit exceeded"
  ELSE "data"

(* getStyles *)
getStyles(proc, fetched) ==
  IF ~fetched THEN "fetch error"
  ELSE IF hasReachedLimit(proc) THEN "Memory limit exceeded"
  ELSE "data"

(* getFileVersions *)
getFileVersions(proc, fetched) ==
  IF ~fetched THEN "fetch error"
  ELSE IF hasReachedLimit(proc) THEN "Memory limit exceeded"
  ELSE "data"

(* getFileComments *)
getFileComments(proc, fetched) ==
  IF ~fetched THEN "fetch error"
  ELSE IF hasReachedLimit(proc) THEN "Memory limit exceeded"
  ELSE "data"

(* getFileNodes with ids node ids, all in one chunk: the limit is tested   *)
(* before the chunk is fetched; without ids the loop does not run and the  *)
(* merge of no chunks is returned                                          *)
getFileNodes(proc, ids, fetched) ==
  IF ids = 0 THEN "data"
  ELSE IF hasReachedLimit(proc) THEN "Memory limit exceeded"
  ELSE IF ~fetched THEN "fetch error"
  ELSE "data"

Passthroughs ==
  {"getComponents", "getStyles", "getFileVersions", "getFileComments", "getFileNodes"}

(* The outcome of endpoint op on the client's processor *)
Outcome(op, proc, ids, fetched) ==
  CASE op = "getComponents" -> getComponents(proc, fetched)
    [] op = "getStyles" -> getStyles(proc, fetched)
    [] op = "getFileVersions" -> getFileVersions(proc, fetched)
    [] op = "getFileComments" -> getFileComments(proc, fetched)
    [] op = "getFileNodes" -> getFileNodes(proc, ids, fetched)

(* A call of a pass-through endpoint, from its start to its outcome: it    *)
(* reads the processor once and changes nothing of the client              *)
Passthrough(op, ids, fetched) ==
  /\ last' = [NoResult EXCEPT !.op = op, !.ids = ids,
                              !.status = Outcome(op, nodeProcessor, ids, fetched),
                              !.before = nodeProcessor, !.cfg = config]
  /\ seen' = seen \cup Ids(last.nodes)
  /\ UNCHANGED <<document, config, nodeProcessor, pending, chain, first, tool,
                 emitted, run>>

(* A call of getFileInfoChunked made by code that holds the client *)
DirectCall(cursor, passed, limit) ==
  /\ CallStart(cursor, passed, limit)
  /\ tool' = NoRequest

----------------------------------------------------------------------------
(* streamNodes followed one loop iteration at a time.  The function has no *)
(* await: from its call to its return no other call of the client runs.    *)

(* The fetch of pending call i returns the document: streamNodes is        *)
(* called, builds the queue and skips to the cursor (lines 210-218)        *)
StreamStart(i) ==
  /\ run.phase = "idle"
  /\ i \in 1..Len(pending)
  /\ run' = [phase |-> "loop", cursor |-> pending[i].cursor,
             queue |-> StartQueue(document, pending[i].cursor),
             result |-> <<>>, before |-> nodeProcessor,
             own |-> pending[i].own]
  /\ pending' = Remove(pending, i)
  /\ UNCHANGED <<document, config, nodeProcessor, last, seen, chain, first,
                 tool, emitted>>

(* One iteration of the main loop (lines 220-238) *)
StreamIterate ==
  /\ run.phase = "loop"
  /\ LoopGuard(run.queue, run.result, config.pageSize)
  /\ \E r \in {processNode(nodeProcessor, document,
                            RawNode(document, Head(run.queue).node),
                            Head(run.queue).depth)} :
       /\ nodeProcessor' = r.proc
       /\ run' = [run EXCEPT
                    !.queue = PushChildren(document, Tail(run.queue), Head(run.queue)),
                    !.result = Pushed(run.result, r),
                    !.phase = IF hasReachedLimit(r.proc) THEN "break" ELSE "loop"]
  /\ UNCHANGED <<document, config, pending, last, seen, chain, first, tool, emitted>>

(* The loop has ended, by its condition or by the break: streamNodes       *)
(* returns the ChunkResult (lines 240-245)                                 *)
StreamReturn ==
  /\ \/ run.phase = "break"
     \/ run.phase = "loop" /\ ~LoopGuard(run.queue, run.result, config.pageSize)
  /\ \E r \in {ChunkResult([queue |-> run.queue, result |-> run.result,
                             proc |-> nodeProcessor])} :
        /\ last' = [NoResult EXCEPT
                      !.status = "ok", !.cursor = run.cursor,
                      !.nodes = r.nodes, !.memoryUsage = r.memoryUsage,
                      !.nextCursor = r.nextCursor, !.hasMore = r.hasMore,
                      !.before = run.before, !.cfg = config,
                      !.own = run.own]
        /\ chain' = IF chain.state \in {"fresh", "running"}
                    THEN [state |-> IF r.hasMore THEN "running" ELSE "done",
                          pages |-> chain.pages \o r.nodes,
                          next |-> r.nextCursor,
                          calls |-> chain.calls + 1]
                    ELSE BrokenChain
        /\ first' = IF ~first.some /\ AsksWholeTree(document, run.cursor, config)
                    THEN [some |-> TRUE, nodes |-> r.nodes, cfg |-> config]
                    ELSE first
        /\ emitted' = emitted + Len(r.nodes)
  /\ run' = Idle
  /\ seen' = seen \cup Ids(last.nodes)
  /\ UNCHANGED <<document, config, nodeProcessor, pending, tool>>

(* A call made while no traversal is running *)
LoopCall(cursor, passed) ==
  /\ run.phase = "idle"
  /\ DirectCall(cursor, passed, 1)

(* The get_file_data handler of the server (src/src/index.ts, 232-264): it *)
(* calls getFileInfoChunked(args.file_key, args.cursor, args.depth) on the *)
(* server's client and passes no config; pageSize, maxMemoryMB and         *)
(* nodeTypes of the request are logged only                                *)
GetFileData(cursor, args) ==
  /\ CallStart(cursor, NoConfig, 1)
  /\ tool' = [some |-> TRUE, cursor |-> cursor, args |-> args]

----------------------------------------------------------------------------
(* Calls made one at a time: a call starts when none is in flight *)
NextWith(cursors, options) ==
  \/ \E cursor \in cursors, partial \in options :
       DirectCall(cursor, Given(partial), 1)
  \/ \E cursor \in cursors : DirectCall(cursor, NoConfig, 1)
  \/ \E i \in 1..Len(pending) : FetchReturn(i)
  \/ \E i \in 1..Len(pending) : FetchFail(i)
  \/ \E i \in 1..Len(pending) : FetchInvalid(i)

(* Paging: bare nodes, page sizes *)
Init == InitWith(Trees({"FRAME", "TEXT"}, {FALSE}), ConstructorOptions)

Next == NextWith(CursorInputs, PagingOptions)

Spec == Init /\ [][Next]_vars

(* Budgets: bare TEXT leaves (24 bytes each, 200 when summarized); budgets *)
(* of 20 bytes (below any node), 30 and 260 bytes; summaries               *)
BudgetOptions ==
  {<<>>, [summarizeNodes |-> TRUE],
   [maxMemoryMB |-> 30], [maxResponseSize |-> 20], [maxResponseSize |-> 260]}

NumericCursors == {NoCursor} \cup {Cursor(toString(c)) : c \in 1..MaxNodes}

InitBudget == InitWith(Trees({"TEXT"}, {FALSE}), BudgetOptions)

NextBudget == NextWith(NumericCursors, BudgetOptions)

SpecBudget == InitBudget /\ [][NextBudget]_vars

(* Depth filter: a depth limit of 0 or 1, a page size of 1; given to the   *)
(* constructor or passed with a call                                       *)
DepthOptions == {<<>>, [pageSize |-> 1], [maxDepth |-> Some(0)], [maxDepth |-> Some(1)]}

InitDepth == InitWith(Trees({"FRAME", "TEXT"}, {FALSE}), DepthOptions)

NextDepth == NextWith(NumericCursors, DepthOptions)

SpecDepth == InitDepth /\ [][NextDepth]_vars

(* Type filter: an allow-list of one type, a page size of 1 *)
TypeOptions ==
  {<<>>, [pageSize |-> 1], [nodeTypes |-> Some({"TEXT"})], [nodeTypes |-> Some({"FRAME"})]}

InitTypes == InitWith(Trees({"FRAME", "TEXT"}, {FALSE}), TypeOptions)

NextTypes == NextWith(NumericCursors, TypeOptions)

SpecTypes == InitTypes /\ [][NextTypes]_vars

(* Transforms: COMPONENT nodes with COMPONENT or TEXT leaves, bare or with *)
(* name, visible, fills and the properties of their type; exclusion lists  *)
(* that name id and type or children and componentId; summaries            *)
PropsOptions ==
  {<<>>, [summarizeNodes |-> TRUE],
   [excludeProps |-> Some({"id", "type", "name"})],
   [excludeProps |-> Some({"children", "componentId", "fills"})]}

InitProps == InitWith(TypedTrees({"COMPONENT"}, {"COMPONENT", "TEXT"}, {FALSE, TRUE}),
                      PropsOptions)

(* The transforms do not depend on the cursor: none, or "1" *)
PropsCursors == {NoCursor, Cursor(<<"1">>)}

NextProps == NextWith(PropsCursors, PropsOptions)

SpecProps == InitProps /\ [][NextProps]_vars

(* The loop, one iteration at a time: every cursor; a client constructed   *)
(* with page size 1, 2 or 100 and the default budget, or with a budget of  *)
(* 48 bytes.  The loop is                                                  *)
(* synchronous code: once started it is run until it returns, which is the *)
(* weak fairness of its steps.                                             *)
InitLoop == InitWith(Trees({"FRAME", "TEXT"}, {FALSE}), ConstructorOptions)

NextLoop ==
  \/ \E cursor \in CursorInputs : LoopCall(cursor, NoConfig)
  \/ \E i \in 1..Len(pending) : StreamStart(i)
  \/ StreamIterate
  \/ StreamReturn
  \/ \E i \in 1..Len(pending) : FetchFail(i)
  \/ \E i \in 1..Len(pending) : FetchInvalid(i)

SpecLoop ==
  /\ InitLoop
  /\ [][NextLoop]_vars
  /\ WF_vars(StreamIterate)
  /\ WF_vars(StreamReturn)

(* The loop followed one iteration at a time on clients constructed with   *)
(* one reason to skip a node each: a response budget of 48 bytes, an       *)
(* allow-list without FRAME, a maximum depth of 0; every client skips      *)
(* nodes it has admitted before                                            *)
SkipOptions ==
  {<<>>, [maxResponseSize |-> 48], [nodeTypes |-> Some({"TEXT"})],
   [maxDepth |-> Some(0)]}

InitSkip == InitWith(Trees({"FRAME", "TEXT"}, {FALSE}), SkipOptions)

SpecSkip == InitSkip /\ [][NextLoop]_vars

(* The pass-through endpoints between traversal calls, on clients with     *)
(* the default budget or a response budget of 48 bytes; traversal calls    *)
(* pass no config or an empty one                                          *)
EndpointOptions == {<<>>, [maxResponseSize |-> 48]}

MaxIds == 1

InitEndpoints == InitWith(Trees({"FRAME", "TEXT"}, {FALSE}), EndpointOptions)

NextEndpoints ==
  \/ \E cursor \in PropsCursors : DirectCall(cursor, NoConfig, 1)
  \/ DirectCall(NoCursor, Given(<<>>), 1)
  \/ \E i \in 1..Len(pending) : FetchReturn(i)
  \/ \E op \in Passthroughs \ {"getFileNodes"}, fetched \in BOOLEAN :
       Passthrough(op, 0, fetched)
  \/ \E ids \in 0..MaxIds, fetched \in BOOLEAN :
       Passthrough("getFileNodes", ids, fetched)

SpecEndpoints == InitEndpoints /\ [][NextEndpoints]_vars

(* Overlapping calls that each pass a config: a call may start while       *)
(* others await their fetch, and the fetches return in any order           *)
OverlapOptions == {[pageSize |-> 1], [pageSize |-> 2], [maxResponseSize |-> 48]}

InitOverlapConfig == InitWith(Trees({"FRAME", "TEXT"}, {FALSE}), {<<>>})

NextOverlapConfig ==
  \/ \E partial \in OverlapOptions : DirectCall(NoCursor, Given(partial), MaxPending)
  \/ \E i \in 1..Len(pending) : FetchReturn(i)

SpecOverlapConfig == InitOverlapConfig /\ [][NextOverlapConfig]_vars

(* Overlapping calls that pass no config, on clients constructed with a    *)
(* page size or a response budget of 48 bytes                              *)
InitOverlap == InitWith(Trees({"FRAME", "TEXT"}, {FALSE}), ConstructorOptions)

NextOverlap ==
  \/ \E cursor \in PropsCursors : DirectCall(cursor, NoConfig, MaxPending)
  \/ \E i \in 1..Len(pending) : FetchReturn(i)
  \/ \E i \in 1..Len(pending) : FetchFail(i)
  \/ \E i \in 1..Len(pending) : FetchInvalid(i)

SpecOverlap == InitOverlap /\ [][NextOverlap]_vars

(* The server: one client constructed without config (index.ts:54) serves  *)
(* every get_file_data request; requests carry a page size or an           *)
(* allow-list of one type                                                  *)
ServerArgs ==
  {<<>>, [pageSize |-> 1], [pageSize |-> 2],
   [nodeTypes |-> {"TEXT"}], [nodeTypes |-> {"FRAME"}]}

InitServer == InitWith(Trees({"FRAME", "TEXT"}, {FALSE}), {<<>>})

NextServer ==
  \/ \E cursor \in NumericCursors, args \in ServerArgs : GetFileData(cursor, args)
  \/ \E i \in 1..Len(pending) : FetchReturn(i)
  \/ \E i \in 1..Len(pending) : FetchFail(i)
  \/ \E i \in 1..Len(pending) : FetchInvalid(i)

SpecServer == InitServer /\ [][NextServer]_vars

----------------------------------------------------------------------------
(* Properties of paging and resumption *)

Returned == last.status = "ok"

(* The sequence a single cursor-less call on a new instance returns when   *)
(* the page size is large enough for the whole tree                        *)
FullTraversal(doc, cfg) ==
  LET big == [cfg EXCEPT !.pageSize = doc.n + 1]
  IN streamNodes(doc, NoCursor, big, NewProcessor(big)).nodes

IsFlat(doc) == \A i \in 1..doc.n : doc.parent[i] = 0

(* C1: a caller that starts without cursor and then passes each returned   *)
(* nextCursor, until hasMore = false, has received exactly the sequence of *)
(* one cursor-less call with a page size large enough for the whole tree.  *)
C1_ResumptionExact ==
  chain.state = "done" => chain.pages = FullTraversal(document, config)

(* C2: a returned page holds at most pageSize nodes. *)
C2_PageBound == Returned => Len(last.nodes) <= last.cfg.pageSize

C2_Witness ==
  /\ Returned
  /\ Len(last.nodes) = last.cfg.pageSize
  /\ last.hasMore
  /\ document.n > last.cfg.pageSize

(* C4: no call returns a node id that an earlier call of the instance      *)
(* returned, whether or not a config was passed in between.                *)
C4_NeverAdmittedAgain == Returned => Ids(last.nodes) \cap seen = {}

IsNumeric(str) == str # <<>> /\ \A j \in 1..Len(str) : IsDigit(str[j])

(* C7: a call whose cursor string is not numeric fails; it returns no      *)
(* result.                                                                 *)
C7_MalformedCursorFatal ==
  (last.cursor.present /\ last.cursor.str # <<>> /\ ~IsNumeric(last.cursor.str))
    => ~Returned

(* C8: in a returned result hasMore is false exactly when nextCursor is    *)
(* absent.                                                                 *)
C8_HasMoreIffCursor == Returned => (~last.hasMore <=> ~last.nextCursor.present)

C8_Witness ==
  /\ Returned
  /\ last.hasMore
  /\ last.nextCursor.present
  /\ last.nodes # <<>>

(* The first k nodes of a flat tree, as the input has them *)
FlatPrefix(doc, k) == [i \in 1..k |-> RawNode(doc, i)]

(* C9: on a flat tree of n childless nodes, without filters and with a     *)
(* budget large enough for all of them, the k-th call of the resume        *)
(* protocol returns the next min(p, remaining) nodes in document order;    *)
(* while nodes remain it reports hasMore and the decimal count of nodes    *)
(* admitted so far as cursor, and the call that drains the queue reports   *)
(* hasMore = false and no cursor.                                          *)
C9_FlatPaging ==
  (/\ chain.state \in {"running", "done"}
   /\ Returned
   /\ IsFlat(document)
   /\ EffectiveBudget(config) >= TotalBytes(document))
  => LET p == config.pageSize
         n == document.n
         k == chain.calls
         done == Min(k * p, n)
     IN /\ chain.pages = FlatPrefix(document, done)
        /\ Len(last.nodes) = Min(p, n - (k - 1) * p)
        /\ (k - 1) * p < n
        /\ IF done < n
           THEN last.hasMore /\ last.nextCursor = Cursor(toString(done))
           ELSE ~last.hasMore /\ last.nextCursor = NoCursor

(* n = 3, p = 2: the second call returned the third node and no cursor *)
C9_Witness ==
  /\ chain.state = "done"
  /\ Returned
  /\ chain.calls = 2
  /\ IsFlat(document)
  /\ document.n = 3
  /\ config.pageSize = 2
  /\ EffectiveBudget(config) >= TotalBytes(document)
  /\ Len(last.nodes) = 1
  /\ last.cursor = Cursor(<<"2">>)

(* C10: every call that asks for the whole tree in one pass, under the     *)
(* config of the first such call, returns the sequence that one returned.  *)
C10_RepeatedFullTraversal ==
  (/\ Returned
   /\ first.some
   /\ last.cfg = first.cfg
   /\ AsksWholeTree(document, last.cursor, last.cfg))
  => last.nodes = first.nodes

----------------------------------------------------------------------------
(* Properties of the size budget *)

(* The first entry the call examined was rejected by the size check of     *)
(* shouldProcessNode, having passed the checks before it                   *)
FirstRejectedForSize ==
  LET queue == StartQueue(document, last.cursor)
      entry == Head(queue)
      node == RawNode(document, entry.node)
      proc == last.before
  IN /\ queue # <<>>
     /\ last.cfg.pageSize >= 1
     /\ node.id \notin proc.processedNodes
     /\ ~(proc.config.nodeTypes.some /\ node.type \notin proc.config.nodeTypes.val)
     /\ ~(proc.config.maxDepth.some /\ entry.depth > proc.config.maxDepth.val)
     /\ proc.currentSize + estimateNodeSize(document, node) > EffectiveBudget(proc.config)

(* C3: when the first candidate of a call is rejected for size the result  *)
(* is empty with hasMore = true; for a tree of one node larger than the    *)
(* budget memoryUsage is 0 as well.                                        *)
C3_OversizeNotConsumed ==
  (Returned /\ FirstRejectedForSize)
  => /\ last.nodes = <<>>
     /\ last.hasMore
     /\ (document.n = 1 => last.memoryUsage = 0)

(* C5: after a call that admitted a node the accumulated size is at most   *)
(* the effective budget, summaries included.                               *)
C5_AccumulatorWithinBudget ==
  (Returned /\ last.nodes # <<>>) => last.memoryUsage <= EffectiveBudget(last.cfg)

(* C6: with maxMemoryMB and maxResponseSize both set, admission keeps the  *)
(* accumulated size of unsummarized nodes within the smaller of the two.   *)
C6_SmallerBudgetGoverns ==
  (/\ Returned
   /\ last.nodes # <<>>
   /\ ~last.cfg.summarizeNodes
   /\ last.cfg.maxMemoryMB # 0
   /\ last.cfg.maxResponseSize # 0)
  => last.memoryUsage <= Min(last.cfg.maxMemoryMB, last.cfg.maxResponseSize)

----------------------------------------------------------------------------
(* Properties of the traversal order and of failed calls *)

RECURSIVE PreOrderOf(_, _)
(* The pre-order, depth-first walk of the subtrees of the nodes kids, in   *)
(* the order of kids                                                       *)
PreOrderOf(doc, kids) ==
  IF kids = <<>> THEN <<>>
  ELSE <<Head(kids)>> \o PreOrderOf(doc, ChildrenOf(doc, Head(kids)))
                     \o PreOrderOf(doc, Tail(kids))

(* The walk of the tree below the document root *)
PreOrder(doc) == PreOrderOf(doc, ChildrenOf(doc, 0))

(* A processor that has admitted nothing *)
Fresh(proc) == proc.processedNodes = {} /\ proc.currentSize = 0

NoFilters(cfg) ==
  /\ ~cfg.nodeTypes.some
  /\ ~cfg.maxDepth.some
  /\ ~cfg.excludeProps.some
  /\ ~cfg.summarizeNodes

(* C11: a cursor-less call on a fresh processor, without filters and with  *)
(* page size and budget large enough for the whole tree, returns the nodes *)
(* in pre-order, depth first, siblings in document order.                  *)
C11_PreOrder ==
  (/\ Returned
   /\ Fresh(last.before)
   /\ NoFilters(last.cfg)
   /\ AsksWholeTree(document, last.cursor, last.cfg))
  => last.nodes = [j \in 1..document.n |-> RawNode(document, PreOrder(document)[j])]

(* A nested node followed by a later top-level sibling *)
C11_Witness ==
  /\ Returned
  /\ Fresh(last.before)
  /\ NoFilters(last.cfg)
  /\ AsksWholeTree(document, last.cursor, last.cfg)
  /\ document.n = 3
  /\ document.parent[2] = 1
  /\ document.parent[3] = 0
  /\ Len(last.nodes) = 3

(* C12: a call whose response has no document fails without traversal: it *)
(* returns no result and leaves the processor (dedup set and accumulator)  *)
(* as the call found it.                                                   *)
C12_NoDocumentNoTraversal ==
  last.status = "invalid"
  => /\ nodeProcessor = last.before
     /\ last.nodes = <<>>
     /\ ~last.nextCursor.present

(* The failed call found a processor that would have admitted nodes *)
C12_Witness ==
  /\ last.status = "invalid"
  /\ Fresh(last.before)
  /\ ~last.cursor.present
  /\ document.n >= 2

----------------------------------------------------------------------------
(* Properties of the filters *)

RECURSIVE Depth(_, _)
(* The depth of node i: 0 for the children of the document *)
Depth(doc, i) == IF doc.parent[i] = 0 THEN 0 ELSE 1 + Depth(doc, doc.parent[i])

(* C13: with maxDepth = d no returned node lies deeper than d, the         *)
(* children of the document being at depth 0.                              *)
C13_DepthFilter ==
  (Returned /\ last.cfg.maxDepth.some)
  => \A j \in 1..Len(last.nodes) :
       Depth(document, last.nodes[j].id) <= last.cfg.maxDepth.val

(* maxDepth = 0: the call examined a nested node and returned only its     *)
(* parent                                                                  *)
C13_Witness ==
  /\ Returned
  /\ last.cfg.maxDepth = Some(0)
  /\ Fresh(last.before)
  /\ document.n = 2
  /\ document.parent[2] = 1
  /\ last.cfg.pageSize > 2
  /\ Ids(last.nodes) = {1}
  /\ ~last.hasMore

(* C14: with a nodeTypes allow-list every returned node has a type of the  *)
(* list.                                                                   *)
C14_TypeFilter ==
  (Returned /\ last.cfg.nodeTypes.some)
  => \A j \in 1..Len(last.nodes) : last.nodes[j].type \in last.cfg.nodeTypes.val

(* nodeTypes = [TEXT]: the call examined a FRAME and returned only its     *)
(* TEXT child                                                              *)
C14_Witness ==
  /\ Returned
  /\ last.cfg.nodeTypes = Some({"TEXT"})
  /\ Fresh(last.before)
  /\ document.n = 2
  /\ document.parent[2] = 1
  /\ document.type[2] = "TEXT"
  /\ Ids(last.nodes) = {2}

----------------------------------------------------------------------------
(* Properties of the get_file_data tool *)

(* C15: the response to a get_file_data request that carries pageSize = n  *)
(* holds at most n nodes.                                                  *)
C15_RequestPageSize ==
  (Returned /\ tool.some /\ Has(tool.args, "pageSize"))
  => Len(last.nodes) <= tool.args.pageSize

(* C16: the response to a get_file_data request that carries a nodeTypes   *)
(* list holds only nodes whose type is in the list.                        *)
C16_RequestNodeTypes ==
  (Returned /\ tool.some /\ Has(tool.args, "nodeTypes"))
  => \A j \in 1..Len(last.nodes) : last.nodes[j].type \in tool.args.nodeTypes

----------------------------------------------------------------------------
(* Properties of the transforms *)

(* C17: whatever excludeProps names, a returned node keeps the id and the  *)
(* type of the input node; without summaries it has no other property that *)
(* excludeProps names.                                                     *)
C17_ExcludeKeepsIdAndType ==
  Returned
  => \A j \in 1..Len(last.nodes) :
       LET e == last.nodes[j]
       IN /\ {"id", "type"} \subseteq DOMAIN e.props
          /\ e.props["id"] = "orig"
          /\ e.props["type"] = "orig"
          /\ e.type = document.type[e.id]
          /\ (~last.cfg.summarizeNodes /\ last.cfg.excludeProps.some)
               => (DOMAIN e.props) \cap (last.cfg.excludeProps.val \ {"id", "type"}) = {}

(* excludeProps names id, type and name; the input nodes have a name *)
C17_Witness ==
  /\ Returned
  /\ last.cfg.excludeProps = Some({"id", "type", "name"})
  /\ ~last.cfg.summarizeNodes
  /\ document.rich
  /\ last.nodes # <<>>
  /\ "name" \notin DOMAIN last.nodes[1].props

SummaryKeys == {"id", "name", "visible", "type", "children", "componentId"}

(* C18 as stated: with summaries a returned COMPONENT node has exactly the *)
(* keys id, name, visible, type, children and componentId, with id, type,  *)
(* children and componentId those of the input node.                       *)
C18_SummaryFromInput ==
  (Returned /\ last.cfg.summarizeNodes)
  => \A j \in 1..Len(last.nodes) :
       LET e == last.nodes[j]
       IN e.type = "COMPONENT"
          => /\ DOMAIN e.props = SummaryKeys
             /\ e.props["id"] = "orig"
             /\ e.props["type"] = "orig"
             /\ \A k \in {"children", "componentId"} :
                  k \in RawKeys(document, e.id) => e.props[k] = "orig"

(* C18 amended: children and componentId are those of the input node       *)
(* unless excludeProps names them (or the input node has none); then they  *)
(* are the defaults [] and ''.                                             *)
C18_ComponentSummary ==
  (Returned /\ last.cfg.summarizeNodes)
  => \A j \in 1..Len(last.nodes) :
       LET e == last.nodes[j]
           excluded == IF last.cfg.excludeProps.some
                       THEN last.cfg.excludeProps.val ELSE {}
       IN e.type = "COMPONENT"
          => /\ DOMAIN e.props = SummaryKeys
             /\ e.props["id"] = "orig"
             /\ e.props["type"] = "orig"
             /\ \A k \in {"children", "componentId"} :
                  e.props[k] = IF k \in RawKeys(document, e.id) \ excluded
                               THEN "orig" ELSE "dflt"

(* A summarized COMPONENT with two children whose input had fills *)
C18_Witness ==
  /\ Returned
  /\ last.cfg.summarizeNodes
  /\ ~last.cfg.excludeProps.some
  /\ document.rich
  /\ document.n = 3
  /\ document.parent[2] = 1
  /\ document.parent[3] = 1
  /\ last.nodes # <<>>
  /\ last.nodes[1].id = 1
  /\ last.nodes[1].props["children"] = "orig"
  /\ last.nodes[1].props["componentId"] = "orig"
  /\ "fills" \notin DOMAIN last.nodes[1].props

----------------------------------------------------------------------------
(* Termination of the traversal loop *)

(* C19: once the fetch has returned and streamNodes runs, the loop ends    *)
(* and the call returns a result.                                          *)
C19_LoopTerminates ==
  (run.phase = "loop") ~> (run.phase = "idle" /\ Returned)

(* The loop after two admissions, with entries still queued *)
C19_Witness ==
  /\ run.phase = "loop"
  /\ Len(run.result) = 2
  /\ run.queue # <<>>
  /\ LoopGuard(run.queue, run.result, config.pageSize)

----------------------------------------------------------------------------
(* The value of the cursor *)

(* C20: a returned nextCursor is the decimal string of the number of nodes *)
(* the current processor has admitted since it was created, which is the   *)
(* number of nodes in all pages returned with that processor.              *)
C20_CursorIsAdmittedCount ==
  (Returned /\ last.nextCursor.present)
  => /\ last.nextCursor = Cursor(toString(getProcessedCount(nodeProcessor)))
     /\ getProcessedCount(nodeProcessor) = emitted

(* A cursor-less call that admitted nothing, after two nodes were admitted *)
(* by an earlier call: the cursor is "2", not a count of this call         *)
C20_Witness ==
  /\ Returned
  /\ ~last.cursor.present
  /\ last.nodes = <<>>
  /\ last.nextCursor = Cursor(<<"2">>)
  /\ emitted = 2

----------------------------------------------------------------------------
(* What halts the traversal *)

----------------------------------------------------------------------------
(* Skipped nodes *)

(* An iteration of the loop that pushed no node onto the page *)
Skip == StreamIterate /\ run'.result = run.result

(* C22 as stated: an iteration that skips its node leaves the processor    *)
(* as it was, and the loop goes on to the next queue entry.                *)
C22_SkipGoesOn ==
  [][Skip => nodeProcessor' = nodeProcessor /\ run'.phase = "loop"]_vars

(* C22: an iteration that skips its node leaves the dedup set, the         *)
(* accumulated size and the processed count as they were; the loop goes    *)
(* on to the next queue entry unless the accumulator is already at or      *)
(* above the effective budget, and then it breaks.                         *)
C22_SkipChangesNothing ==
  [][Skip => /\ nodeProcessor' = nodeProcessor
             /\ (run'.phase = "loop")
                  <=> (nodeProcessor.currentSize < EffectiveBudget(config))]_vars

(* The loop goes on after skipping a node whose type is not allowed *)
C22_Witness ==
  /\ run.phase = "loop"
  /\ config.nodeTypes.some
  /\ run.result = <<>>
  /\ nodeProcessor = run.before
  /\ run.queue # StartQueue(document, run.cursor)
  /\ run.queue # <<>>

----------------------------------------------------------------------------
(* Numeric cursors *)

(* C23: a call with numeric cursor c walks the subtrees of the top-level   *)
(* children after the first min(c, number of top-level children): on a     *)
(* fresh processor with page and budget large enough it returns exactly    *)
(* their pre-order; and when c is at least the number of top-level         *)
(* children it returns no node, hasMore = false and no nextCursor,         *)
(* whatever the tree holds below the top level.                            *)
C23_CursorSkipsTopLevel ==
  (Returned /\ last.cursor.present /\ IsNumeric(last.cursor.str))
  => LET top == ChildrenOf(document, 0)
         c == parseInt(last.cursor.str).val
         kept == SubSeq(top, Min(c, Len(top)) + 1, Len(top))
     IN /\ c >= Len(top)
             => last.nodes = <<>> /\ ~last.hasMore /\ last.nextCursor = NoCursor
        /\ (/\ Fresh(last.before)
            /\ last.cfg.pageSize >= document.n
            /\ EffectiveBudget(last.cfg) >= TotalBytes(document))
             => last.nodes = [j \in 1..Len(PreOrderOf(document, kept)) |->
                                RawNode(document, PreOrderOf(document, kept)[j])]

(* Cursor 1 on a tree with one top-level node and two nodes below it *)
C23_Witness ==
  /\ Returned
  /\ last.cursor = Cursor(<<"1">>)
  /\ Fresh(last.before)
  /\ document.n = 3
  /\ Len(ChildrenOf(document, 0)) = 1
  /\ last.nodes = <<>>
  /\ ~last.hasMore

----------------------------------------------------------------------------
(* Children of skipped nodes *)

(* C24: a call without cursor that emptied its queue has admitted every    *)
(* node that it had not admitted before, whose type is allowed, that lies  *)
(* within the maximum depth and whose size still fits the budget when the  *)
(* call ends, whether or not the node's parent was admitted.               *)
C24_ChildrenOfSkippedNodes ==
  (Returned /\ ~last.hasMore /\ ~last.cursor.present)
  => \A i \in 1..document.n :
        (/\ i \notin last.before.processedNodes
         /\ last.cfg.nodeTypes.some => document.type[i] \in last.cfg.nodeTypes.val
         /\ last.cfg.maxDepth.some => Depth(document, i) <= last.cfg.maxDepth.val
         /\ last.memoryUsage + estimateNodeSize(document, RawNode(document, i))
              <= EffectiveBudget(last.cfg))
        => i \in Ids(last.nodes)

(* A TEXT node was admitted whose parent and grandparent, both FRAME, were *)
(* skipped by the type filter                                              *)
C24_Witness ==
  /\ Returned
  /\ ~last.hasMore
  /\ ~last.cursor.present
  /\ last.cfg.nodeTypes = Some({"TEXT"})
  /\ document.n = 3
  /\ document.parent[2] = 1
  /\ document.parent[3] = 2
  /\ Ids(last.nodes) = {3}

----------------------------------------------------------------------------
(* Budget exhaustion across calls *)

(* C25: a call whose traversal starts on a processor whose accumulator is  *)
(* at or above its effective budget (no config was passed, or the          *)
(* processor would be new) admits no node and leaves the processor, its    *)
(* accumulated size included, as it was; it examines one queue entry, if   *)
(* the queue holds one, so that hasMore tells whether the queue is         *)
(* non-empty after that one entry was replaced by its children.            *)
C25_ExhaustionIsSticky ==
  (Returned /\ last.before.currentSize >= EffectiveBudget(last.before.config))
  => LET q == StartQueue(document, last.cursor)
     IN /\ last.nodes = <<>>
        /\ last.memoryUsage = last.before.currentSize
        /\ nodeProcessor = last.before
        /\ last.hasMore
             <=> (q # <<>> /\ PushChildren(document, Tail(q), Head(q)) # <<>>)

(* A call on an exhausted processor met a node it had not admitted, with   *)
(* more entries behind it                                                  *)
C25_Witness ==
  /\ Returned
  /\ last.before.currentSize >= EffectiveBudget(last.before.config)
  /\ last.before.currentSize > 0
  /\ StartQueue(document, last.cursor) # <<>>
  /\ Head(StartQueue(document, last.cursor)).node \notin last.before.processedNodes
  /\ last.nodes = <<>>

----------------------------------------------------------------------------
(* The limit on the pass-through endpoints *)

(* C26: a getComponents, getStyles, getFileVersions or getFileComments     *)
(* call whose fetch succeeded, and a getFileNodes call with at least one   *)
(* id, fails with 'Memory limit exceeded' exactly when the accumulator of  *)
(* the client's processor is at or above the effective budget, and         *)
(* otherwise returns the fetched data; a processor created since by a      *)
(* getFileInfoChunked call with a config starts below the budget again.    *)
C26_PassthroughLimit ==
  (/\ last.op \in Passthroughs
   /\ last.op = "getFileNodes" => last.ids >= 1
   /\ last.status # "fetch error")
  => /\ last.status \in {"data", "Memory limit exceeded"}
     /\ last.status = "Memory limit exceeded"
          <=> nodeProcessor.currentSize >= EffectiveBudget(config)
     /\ emitted = 0 => last.status = "data"

(* An endpoint returned data on a client that had exhausted its budget     *)
(* before a call with a config replaced the processor                      *)
C26_Witness ==
  /\ last.op = "getStyles"
  /\ last.status = "data"
  /\ emitted = 0
  /\ Cardinality(seen) >= 2
  /\ EffectiveBudget(config) = 48

----------------------------------------------------------------------------
(* Overlapping calls *)

(* C27: the traversal of a call that passed a config runs under the config *)
(* that call's merge produced, on a processor created for that config,     *)
(* also when another call started while it awaited its fetch.              *)
C27_OwnConfig ==
  Returned => last.cfg = last.own /\ last.before.config = last.own

(* C28: with overlapping calls that pass no config, a returned page holds  *)
(* no node twice and no node that a page returned earlier holds; the       *)
(* dedup set is the set of the ids returned so far and the accumulator is  *)
(* the sum of the sizes of the nodes with these ids as they were emitted.  *)
C28_NoConfigOverlap ==
  /\ Returned => /\ Ids(last.nodes) \cap seen = {}
                 /\ Cardinality(Ids(last.nodes)) = Len(last.nodes)
  /\ nodeProcessor.processedNodes = seen \cup Ids(last.nodes)
  /\ nodeProcessor.currentSize =
       SumOver([i \in nodeProcessor.processedNodes |->
                  AcceptedSize(document, Transform(config, RawNode(document, i)))],
               nodeProcessor.processedNodes)

(* A call returned a page while another call, started before it returned,  *)
(* still awaits its fetch, after an earlier page                           *)
C28_Witness ==
  /\ Returned
  /\ Len(pending) >= 1
  /\ last.nodes # <<>>
  /\ seen # {}

----------------------------------------------------------------------------
(* Failed calls *)

(* C29: after a call failed, on a rejected fetch or a response without     *)
(* document, the config and the processor (dedup set and accumulated       *)
(* size) are what they were before the call started.                       *)
C29_FailedCallLeavesState ==
  (last.status \in {"error", "invalid"})
  => last.kept /\ config = last.cfg /\ nodeProcessor = last.before

====
